---- MODULE Spec2Model ----
(***************************************************************************)
(* Booking coordinator and slot generator of the court booking system.     *)
(*                                                                         *)
(* Two reserve endpoints (the create-booking edge function and the         *)
(* book-slot route) and the stripe-webhook handler work on two tables,     *)
(* available_slots and bookings, and on the payment gateway.  Every await  *)
(* of a handler (one database statement or one gateway request) is one     *)
(* atomic step; handlers of different requests interleave between steps.   *)
(* The generate-slots route computes a batch of slot rows and writes it    *)
(* to available_slots with one upsert.                                     *)
(***************************************************************************)
EXTENDS Integers, FiniteSets, Sequences, TLC

\* Number of reserve requests (each request runs one handler).
NumCalls == 2
\* Number of slot rows of available_slots that customers ask for.
NumSlots == 2
\* Number of calendar dates a generate request can cover.
NumDates == 2
\* Number of webhook handler invocations that can run at the same time.
NumHooks == 2

Procs == 1..NumCalls
SlotIds == 1..NumSlots
Hooks == 1..NumHooks

\* A slot id that names no row of available_slots.
NoSuchSlot == 0
\* "no value yet" for the locals of a handler.
Null == 0

Endpoints == {"create-booking", "book-slot"}

VARIABLES
  slots,     \* available_slots: slot id -> row
  bookings,  \* bookings: set of rows
  nextId,    \* next bookings.id (uuid_generate_v4 never repeats)
  stripe,    \* gateway objects: sequence of checkout sessions / payment intents
  calls,     \* reserve handlers: locals and position
  hooks,     \* webhook handlers: locals and position
  gen        \* generate-slots handler: last request and its response

vars == <<slots, bookings, nextId, stripe, calls, hooks, gen>>

----------------------------------------------------------------------------
(* Storage *)

\* Faulty variant of SlotSelected: the query without .eq('is_available', true).
SlotSelectedAnyAvailability(slotId) ==
  slotId \in DOMAIN slots

\* .from('available_slots').select('*').eq('id', slotId).eq('is_available', true).single()
\* TRUE when the query returns a row.
SlotSelected(slotId) ==
  /\ slotId \in DOMAIN slots
  /\ slots[slotId].is_available = TRUE

\* stripe_payment_intent_id TEXT UNIQUE NOT NULL
PaymentRefFree(ref) ==
  \A b \in bookings : b.stripe_payment_intent_id # ref

\* Faulty variant of UniqueConfirmedSlot: a bookings table without the constraint.
UniqueConfirmedSlotDropped(rows) ==
  TRUE

\* CONSTRAINT unique_confirmed_slot UNIQUE(slot_id) WHERE status IN ('confirmed', 'completed')
\* TRUE when the table `rows` satisfies the constraint.
UniqueConfirmedSlot(rows) ==
  \A a, b \in rows :
    ( /\ a.slot_id = b.slot_id
      /\ a.status \in {"confirmed", "completed"}
      /\ b.status \in {"confirmed", "completed"} ) => a = b

\* Faulty variant of NewBooking: the row is stored as confirmed.
NewBookingConfirmed(id, slotId, ref, amount) ==
  [ id |-> id,
    slot_id |-> slotId,
    stripe_payment_intent_id |-> ref,
    amount_paid_cents |-> amount,
    status |-> "confirmed" ]

\* Faulty variant of NewBooking: the slot id is stored as payment reference.
NewBookingRefIsSlot(id, slotId, ref, amount) ==
  [ id |-> id,
    slot_id |-> slotId,
    stripe_payment_intent_id |-> slotId,
    amount_paid_cents |-> amount,
    status |-> "pending" ]

\* The row inserted by a reserve handler.
NewBooking(id, slotId, ref, amount) ==
  [ id |-> id,
    slot_id |-> slotId,
    stripe_payment_intent_id |-> ref,
    amount_paid_cents |-> amount,
    status |-> "pending" ]

\* .from('bookings').update({ status: 'confirmed' }).eq('stripe_payment_intent_id', session.id)
ConfirmRows(rows, ref) ==
  { IF b.stripe_payment_intent_id = ref
      THEN [b EXCEPT !.status = "confirmed"]
      ELSE b : b \in rows }

\* .from('bookings').delete().eq('stripe_payment_intent_id', expiredSession.id)
DeleteRows(rows, ref) ==
  { b \in rows : b.stripe_payment_intent_id # ref }

\* .from('available_slots').update({ is_available: v }).eq('id', slotId)
SetAvailable(table, slotId, v) ==
  IF slotId \in DOMAIN table
    THEN [table EXCEPT ![slotId].is_available = v]
    ELSE table

----------------------------------------------------------------------------
(* Slot generator: POST generate-slots                                     *)
(*                                                                         *)
(* A date string "YYYY-MM-DD" is the number of the day counted from        *)
(* 1970-01-01, an instant is a number of minutes since 1970-01-01T00:00Z,  *)
(* and the zone of the server gives the offset of local time from UTC, in  *)
(* minutes, at every instant.                                              *)

MinutesPerDay == 1440
\* for (let hour = 7; hour < 23; hour += 1.5)
FirstHour == 7
LastHour == 23
StepMinutes == 90
\* endTotalMinutes = totalMinutes + 90
SlotMinutes == 90
\* price = isWeekend ? 65 : 40
WeekendPrice == 65
WeekdayPrice == 40
\* getDay() of 1970-01-01, a Thursday.
EpochDay == 4

\* The first date of the calendar the model looks at: 2024-03-31, a Sunday,
\* so that the dates hold a day of the weekend and a weekday.
FirstDate == 19813
Dates == FirstDate..(FirstDate + NumDates - 1)

\* Zones of the server.
TimeZones == {"America/New_York", "UTC", "Europe/Tallinn"}

\* Europe/Tallinn goes from EET to EEST on 2024-03-31 at 01:00 UTC.
DstStart == FirstDate * MinutesPerDay + 60

\* The offsets from UTC a zone has during the dates of the model.
ZoneOffsets(tz) ==
  CASE tz = "America/New_York" -> {-240}
    [] tz = "Europe/Tallinn" -> {120, 180}
    [] OTHER -> {0}

\* The offset of local time from UTC at an instant.
UtcOffset(tz, instant) ==
  CASE tz = "America/New_York" -> -240
    [] tz = "Europe/Tallinn" -> IF instant < DstStart THEN 120 ELSE 180
    [] OTHER -> 0

\* LocalTime(t) of ECMAScript.
LocalTime(tz, instant) == instant + UtcOffset(tz, instant)

\* UTC(t) of ECMAScript: the instant with that local time, the earlier one if
\* there are two; a local time the zone skips is read with the offset before
\* the change.
UTC(tz, local) ==
  LET instants == { local - o : o \in ZoneOffsets(tz) }
      valid == { u \in instants : LocalTime(tz, u) = local }
  IN  IF valid # {}
        THEN CHOOSE u \in valid : \A v \in valid : u <= v
        ELSE CHOOSE u \in instants : \A v \in instants : u >= v

\* currentDate.setDate(currentDate.getDate() + 1): the same local time of
\* day on the next local date.
NextLocalDay(tz, instant) == UTC(tz, LocalTime(tz, instant) + MinutesPerDay)

\* rule_value of the court_config rule, in the order of Object.entries.
DocumentedCourts ==
  << [name |-> "Court A", offset_minutes |-> 0],
     [name |-> "Court B", offset_minutes |-> 30] >>

\* Court configurations the handler can read: none (courtConfig is null and
\* courts is {}), or one an operator stored; every offset is within [0, 90).
CourtConfigs ==
  { << >>,
    DocumentedCourts,
    << [name |-> "Court A", offset_minutes |-> 30] >>,
    << [name |-> "Court A", offset_minutes |-> 60],
       [name |-> "Court B", offset_minutes |-> 45] >>,
    << [name |-> "Court B", offset_minutes |-> 60] >> }

\* The pricing rules of the setup: weekday_rates {"07:00-17:00": 40,
\* "17:00-23:00": 65} and weekend_rates {"07:00-23:00": 65}, each bucket
\* [from, to) in minutes of the day.
WeekdayRates ==
  { [from |-> 7 * 60, to |-> 17 * 60, price |-> 40],
    [from |-> 17 * 60, to |-> 23 * 60, price |-> 65] }
WeekendRates ==
  { [from |-> 7 * 60, to |-> 23 * 60, price |-> 65] }

\* A holiday rule with a price_override, as an operator adds it, for the
\* first date of the model.
HolidayRule ==
  [ dates |-> {FirstDate},
    price_override |-> [from |-> 7 * 60, to |-> 23 * 60, price |-> 95] ]

\* new Date("YYYY-MM-DD"): midnight UTC of that date.
NewDate(date) == date * MinutesPerDay

\* Date.prototype.getDay(): day of the week of the local date, 0 = Sunday.
GetDay(instant, tz) ==
  ((LocalTime(tz, instant) \div MinutesPerDay) + EpochDay) % 7

\* toISOString().split('T')[0]: the UTC date of the instant.
ToISODate(instant) == instant \div MinutesPerDay

\* `${h padded}:${m padded}:00`
TimeString(h, m) == [hour |-> h, minute |-> m]

\* The TIME value the storage reads from a time string, in minutes.
TimeOfDay(t) == t.hour * 60 + t.minute

\* One row of the batch, lines 97-103.
SlotRow(courtName, currentDate, totalMinutes, price) ==
  LET startHour == totalMinutes \div 60
      startMin == totalMinutes % 60
      endTotalMinutes == totalMinutes + SlotMinutes
      endHour == endTotalMinutes \div 60
      endMin == endTotalMinutes % 60
  IN  [ court_name |-> courtName,
        slot_date |-> ToISODate(currentDate),
        start_time |-> TimeString(startHour, startMin),
        end_time |-> TimeString(endHour, endMin),
        base_price_cents |-> price * 100 ]

\* The inner loop from the tick that starts at hourMinutes (hour * 60) on.
RECURSIVE SlotsOfDay(_, _, _, _, _)
SlotsOfDay(courtName, config, currentDate, price, hourMinutes) ==
  IF ~(hourMinutes < LastHour * 60)
    THEN << >>
    ELSE LET totalMinutes == hourMinutes + config.offset_minutes
         IN  IF totalMinutes \div 60 >= LastHour
               THEN << >>
               ELSE << SlotRow(courtName, currentDate, totalMinutes, price) >>
                    \o SlotsOfDay(courtName, config, currentDate, price,
                                  hourMinutes + StepMinutes)

\* The outer loop from currentDate on.
RECURSIVE SlotsFromDate(_, _, _, _, _)
SlotsFromDate(courtName, config, currentDate, endDateObj, tz) ==
  IF ~(currentDate <= endDateObj)
    THEN << >>
    ELSE LET isWeekend == GetDay(currentDate, tz) = 0 \/ GetDay(currentDate, tz) = 6
             price == IF isWeekend THEN WeekendPrice ELSE WeekdayPrice
         IN  SlotsOfDay(courtName, config, currentDate, price, FirstHour * 60)
             \o SlotsFromDate(courtName, config, NextLocalDay(tz, currentDate),
                              endDateObj, tz)

generateSlotsForCourt(courtName, config, startDate, endDate, tz) ==
  SlotsFromDate(courtName, config, NewDate(startDate), NewDate(endDate), tz)

\* for (const [courtName, config] of Object.entries(courts)) slots.push(...)
RECURSIVE GenerateBatch(_, _, _, _)
GenerateBatch(courts, startDate, endDate, tz) ==
  IF courts = << >>
    THEN << >>
    ELSE generateSlotsForCourt(Head(courts).name, Head(courts), startDate, endDate, tz)
         \o GenerateBatch(Tail(courts), startDate, endDate, tz)

\* UNIQUE(court_name, slot_date, start_time), the onConflict target.
Key(r) == <<r.court_name, r.slot_date, TimeOfDay(r.start_time)>>

\* The row the storage makes of a batch row it inserts: is_available takes
\* its DEFAULT TRUE.
InsertedRow(r) ==
  [ court_name |-> r.court_name, slot_date |-> r.slot_date,
    start_time |-> r.start_time, end_time |-> r.end_time,
    base_price_cents |-> r.base_price_cents, is_available |-> TRUE ]

\* Faulty variant of UpdatedRow: the row in conflict is replaced by the
\* inserted row, column defaults included.
UpdatedRowReplaced(old, r) == InsertedRow(r)

\* ON CONFLICT ... DO UPDATE SET the columns of the batch: the row in
\* conflict keeps its id and its is_available.
UpdatedRow(old, r) ==
  [old EXCEPT !.court_name = r.court_name,
              !.slot_date = r.slot_date,
              !.start_time = r.start_time,
              !.end_time = r.end_time,
              !.base_price_cents = r.base_price_cents]

\* Faulty variant of UpsertRows: a plain insert of the batch.
InsertRows(table, batch) ==
  table \o [k \in DOMAIN batch |-> InsertedRow(batch[k])]

\* The table after INSERT ... ON CONFLICT (court_name, slot_date, start_time)
\* DO UPDATE of a batch with no key twice: rows in conflict updated in place,
\* the other rows of the batch appended in their order.
UpsertRows(table, batch) ==
  LET tableKeys == { Key(table[id]) : id \in DOMAIN table }
      batchKeys == { Key(batch[k]) : k \in DOMAIN batch }
      IsNew(r) == Key(r) \notin tableKeys
      new == SelectSeq(batch, IsNew)
  IN  [id \in DOMAIN table |->
         IF Key(table[id]) \notin batchKeys THEN table[id]
         ELSE UpdatedRow(table[id],
                batch[CHOOSE k \in DOMAIN batch : Key(batch[k]) = Key(table[id])])]
      \o [k \in DOMAIN new |-> InsertedRow(new[k])]

\* A batch that names one key twice is rejected: "ON CONFLICT DO UPDATE
\* command cannot affect row a second time".
KeysDistinct(batch) ==
  Cardinality({ Key(batch[k]) : k \in DOMAIN batch }) = Len(batch)

\* A TIME value lies between 00:00:00 and 24:00:00.
ValidTime(t) == t.minute < 60 /\ TimeOfDay(t) <= MinutesPerDay

\* The half-open interval of a row, as minutes since 1970-01-01T00:00.
StartOf(r) == r.slot_date * MinutesPerDay + TimeOfDay(r.start_time)
EndOf(r) == r.slot_date * MinutesPerDay + TimeOfDay(r.end_time)

\* CONSTRAINT no_overlapping_slots EXCLUDE (court_name WITH =, range WITH &&)
NoOverlappingSlots(table) ==
  LET range == [i \in DOMAIN table |->
                 <<table[i].court_name, StartOf(table[i]), EndOf(table[i])>>]
  IN  \A i \in DOMAIN range : \A j \in 1..(i - 1) :
        range[i][1] = range[j][1]
        => ~(range[i][2] < range[j][3] /\ range[j][2] < range[i][3])

\* Faulty variant of Upsert: the rows are written although the statement
\* reports an error.
UpsertWritesDespiteError(table, batch) ==
  LET written == CHOOSE w \in {UpsertRows(table, batch)} : TRUE
  IN  IF /\ \A k \in DOMAIN batch :
              ValidTime(batch[k].start_time) /\ ValidTime(batch[k].end_time)
         /\ KeysDistinct(batch)
         /\ NoOverlappingSlots(written)
        THEN [error |-> FALSE, table |-> written]
        ELSE [error |-> TRUE, table |-> written]

\* .from('available_slots').upsert(slots, { onConflict: ... }): one statement,
\* which changes the table only if every row is accepted.
Upsert(table, batch) ==
  LET written == CHOOSE w \in {UpsertRows(table, batch)} : TRUE
  IN  IF /\ \A k \in DOMAIN batch :
              ValidTime(batch[k].start_time) /\ ValidTime(batch[k].end_time)
         /\ KeysDistinct(batch)
         /\ NoOverlappingSlots(written)
        THEN [error |-> FALSE, table |-> written]
        ELSE [error |-> TRUE, table |-> table]

\* available_slots after the run of generate that opened the first date.
InitialSlots ==
  Upsert(<< >>, GenerateBatch(DocumentedCourts, FirstDate, FirstDate, "UTC")).table

----------------------------------------------------------------------------
(* Initial state: the generated slots are all on offer, nothing is booked. *)

IdleCall ==
  [ pc |-> "idle", endpoint |-> "create-booking", slotId |-> NoSuchSlot,
    base_price_cents |-> Null, session |-> Null, booking |-> Null,
    status |-> Null, error |-> "" ]

IdleGen ==
  [ tz |-> "UTC", startDate |-> Null, endDate |-> Null, courts |-> << >>,
    repeat |-> FALSE, status |-> Null, slotsCreated |-> Null ]

IdleHook ==
  [ pc |-> "idle", signature |-> "", type |-> "", id |-> Null, slot_id |-> Null,
    status |-> Null ]

Init ==
  /\ slots = InitialSlots
  /\ bookings = {}
  /\ nextId = 1
  /\ stripe = << >>
  /\ calls = [p \in Procs |-> IdleCall]
  /\ hooks = [h \in Hooks |-> IdleHook]
  /\ gen = IdleGen

----------------------------------------------------------------------------
(* reserve: create-booking (Deno.serve) and book-slot (POST) *)

\* The response of a reserve handler.
Respond(c, status, error) ==
  [c EXCEPT !.pc = "done", !.status = status, !.error = error]

\* "Get slot details": the request arrives and the slot is read.  The handler
\* keeps the row it read; base_price_cents is the column it uses later.
GetSlot(p, endpoint, slotId) ==
  /\ calls[p].pc = "idle"
  /\ IF SlotSelected(slotId)
       THEN calls' = [calls EXCEPT ![p] =
              [@ EXCEPT !.pc = "create_session", !.endpoint = endpoint,
                        !.slotId = slotId,
                        !.base_price_cents = slots[slotId].base_price_cents]]
       ELSE calls' = [calls EXCEPT ![p] =
              Respond([@ EXCEPT !.endpoint = endpoint, !.slotId = slotId],
                      400, "Slot not available")]
  /\ UNCHANGED <<slots, bookings, nextId, stripe, hooks, gen>>

\* The gateway object a reserve endpoint creates: create-booking a Checkout
\* Session, book-slot a Payment Intent.
\* unit_amount / amount is the price the handler read.
GatewayObject(endpoint, slotId, amount) ==
  [ object |-> IF endpoint = "create-booking" THEN "checkout.session"
                                               ELSE "payment_intent",
    slot_id |-> slotId,
    amount |-> amount,
    status |-> "open" ]

\* stripe.checkout.sessions.create / stripe.paymentIntents.create succeeds.
CreateSession(p) ==
  /\ calls[p].pc = "create_session"
  /\ stripe' = Append(stripe, GatewayObject(calls[p].endpoint, calls[p].slotId,
                                            calls[p].base_price_cents))
  /\ calls' = [calls EXCEPT ![p] =
       [@ EXCEPT !.pc = "insert_booking", !.session = Len(stripe) + 1]]
  /\ UNCHANGED <<slots, bookings, nextId, hooks, gen>>

\* The gateway request throws: the catch block answers 500.
CreateSessionFails(p) ==
  /\ calls[p].pc = "create_session"
  /\ calls' = [calls EXCEPT ![p] = Respond(@, 500, "gateway")]
  /\ UNCHANGED <<slots, bookings, nextId, stripe, hooks, gen>>

\* Faulty variant of InsertBooking: amount_paid_cents is the price the slot
\* has when the booking is inserted.
InsertBookingRereadsPrice(p) ==
  /\ calls[p].pc = "insert_booking"
  /\ PaymentRefFree(calls[p].session)
  /\ bookings' = bookings \cup {NewBooking(nextId, calls[p].slotId, calls[p].session,
                                          slots[calls[p].slotId].base_price_cents)}
  /\ nextId' = nextId + 1
  /\ calls' = [calls EXCEPT ![p] =
       [@ EXCEPT !.pc = "update_slot", !.booking = nextId]]
  /\ UNCHANGED <<slots, stripe, hooks, gen>>

\* "Create booking with pending status": the insert succeeds.
InsertBooking(p) ==
  /\ calls[p].pc = "insert_booking"
  /\ PaymentRefFree(calls[p].session)
  /\ bookings' = bookings \cup {NewBooking(nextId, calls[p].slotId, calls[p].session,
                                          calls[p].base_price_cents)}
  /\ nextId' = nextId + 1
  /\ calls' = [calls EXCEPT ![p] =
       [@ EXCEPT !.pc = "update_slot", !.booking = nextId]]
  /\ UNCHANGED <<slots, stripe, hooks, gen>>

\* Faulty variant of InsertBookingFails: the row is stored although the insert
\* reports an error.
InsertBookingFailsAfterWrite(p) ==
  /\ calls[p].pc = "insert_booking"
  /\ bookings' = bookings \cup {NewBooking(nextId, calls[p].slotId, calls[p].session,
                                          calls[p].base_price_cents)}
  /\ nextId' = nextId + 1
  /\ calls' = [calls EXCEPT ![p] = Respond(@, 500, "insert")]
  /\ UNCHANGED <<slots, stripe, hooks, gen>>

\* The insert returns bookingError: throw, the catch block answers 500.
InsertBookingFails(p) ==
  /\ calls[p].pc = "insert_booking"
  /\ calls' = [calls EXCEPT ![p] = Respond(@, 500, "insert")]
  /\ UNCHANGED <<slots, bookings, nextId, stripe, hooks, gen>>

\* "Mark slot as unavailable", then the success response.
UpdateSlot(p) ==
  /\ calls[p].pc = "update_slot"
  /\ slots' = SetAvailable(slots, calls[p].slotId, FALSE)
  /\ calls' = [calls EXCEPT ![p] = Respond(@, 200, "")]
  /\ UNCHANGED <<bookings, nextId, stripe, hooks, gen>>

\* The update of available_slots returns an error.  The handler does not read
\* the result of this statement, so the success response follows all the same.
UpdateSlotFails(p) ==
  /\ calls[p].pc = "update_slot"
  /\ calls' = [calls EXCEPT ![p] = Respond(@, 200, "")]
  /\ UNCHANGED <<slots, bookings, nextId, stripe, hooks, gen>>

----------------------------------------------------------------------------
(* Payment gateway: what happens to a session after the reserve call *)

\* The customer received checkoutUrl / clientSecret (the call answered 200)
\* and pays.
CustomerPays(i) ==
  /\ i \in DOMAIN stripe
  /\ stripe[i].status = "open"
  /\ \E p \in Procs : calls[p].session = i /\ calls[p].status = 200
  /\ stripe' = [stripe EXCEPT ![i].status = "complete"]
  /\ UNCHANGED <<slots, bookings, nextId, calls, hooks, gen>>

\* An unpaid Checkout Session expires.  Sessions live for at least 30
\* minutes, so the call that created it has answered by then.
SessionExpires(i) ==
  /\ i \in DOMAIN stripe
  /\ stripe[i].object = "checkout.session"
  /\ stripe[i].status = "open"
  /\ \E p \in Procs : calls[p].session = i /\ calls[p].pc = "done"
  /\ stripe' = [stripe EXCEPT ![i].status = "expired"]
  /\ UNCHANGED <<slots, bookings, nextId, calls, hooks, gen>>

\* The event the gateway sends for object i (at least once).
EventType(i) ==
  IF stripe[i].object = "checkout.session"
    THEN IF stripe[i].status = "complete" THEN "checkout.session.completed"
         ELSE IF stripe[i].status = "expired" THEN "checkout.session.expired"
         ELSE ""
    ELSE IF stripe[i].status = "complete" THEN "payment_intent.succeeded"
         ELSE ""

----------------------------------------------------------------------------
(* stripe-webhook *)

\* The response of a webhook handler.
HookRespond(k, status) == [k EXCEPT !.pc = "done", !.status = status]

\* Signatures a request can carry: none, one that fails verification, one
\* that constructEventAsync accepts.
Signatures == {"missing", "invalid", "valid"}

\* The locals of a handler whose event passed constructEventAsync.
VerifiedHook == [IdleHook EXCEPT !.signature = "valid"]

\* Faulty variant of RejectUnverified: the event of the body is handled
\* without the signature being checked.
HandleUnverified(h, signature) ==
  /\ hooks[h].pc \in {"idle", "done"}
  /\ signature # "valid"
  /\ \E i \in DOMAIN stripe :
       /\ bookings' = DeleteRows(bookings, i)
       /\ hooks' = [hooks EXCEPT ![h] =
            HookRespond([IdleHook EXCEPT !.signature = signature,
                                         !.type = "checkout.session.expired",
                                         !.id = i], 200)]
  /\ UNCHANGED <<slots, nextId, stripe, calls, gen>>

\* A request without Stripe-Signature, or whose signature fails
\* constructEventAsync, is answered 400 before the event is looked at.
RejectUnverified(h, signature) ==
  /\ hooks[h].pc \in {"idle", "done"}
  /\ signature # "valid"
  /\ hooks' = [hooks EXCEPT ![h] =
       HookRespond([IdleHook EXCEPT !.signature = signature], 400)]
  /\ UNCHANGED <<slots, bookings, nextId, stripe, calls, gen>>

\* Faulty variant of HandleCompleted: a replay for a booking that is not pending is
\* thrown as an error and answered 500.
HandleCompletedRejectsReplay(h, i) ==
  /\ LET replay == \E b \in bookings :
                     b.stripe_payment_intent_id = i /\ b.status # "pending"
         updated == ConfirmRows(bookings, i)
     IN  /\ bookings' = IF UniqueConfirmedSlot(updated) THEN updated ELSE bookings
         /\ hooks' = [hooks EXCEPT ![h] =
              HookRespond([VerifiedHook EXCEPT !.type = "checkout.session.completed",
                                           !.id = i],
                          IF replay THEN 500 ELSE 200)]
  /\ UNCHANGED <<slots, nextId, stripe, calls, gen>>

\* case 'checkout.session.completed': one update, then { received: true }.
\* An update the storage rejects returns updateError, which is logged.
HandleCompleted(h, i) ==
  /\ LET updated == ConfirmRows(bookings, i)
     IN  bookings' = IF UniqueConfirmedSlot(updated) THEN updated ELSE bookings
  /\ hooks' = [hooks EXCEPT ![h] =
       HookRespond([VerifiedHook EXCEPT !.type = "checkout.session.completed", !.id = i], 200)]
  /\ UNCHANGED <<slots, nextId, stripe, calls, gen>>

\* Faulty variant of HandleExpired: the error .single() returns when no row
\* matches is thrown, and the request ends with 500.
HandleExpiredThrowsOnMissing(h, i) ==
  /\ LET found == { b \in bookings : b.stripe_payment_intent_id = i }
         k == [VerifiedHook EXCEPT !.type = "checkout.session.expired", !.id = i]
     IN  IF found # {}
           THEN hooks' = [hooks EXCEPT ![h] =
                  [k EXCEPT !.pc = "delete_booking",
                            !.slot_id = (CHOOSE b \in found : TRUE).slot_id]]
           ELSE hooks' = [hooks EXCEPT ![h] = HookRespond(k, 500)]
  /\ UNCHANGED <<slots, bookings, nextId, stripe, calls, gen>>

\* case 'checkout.session.expired': select('slot_id') ... .single()
HandleExpired(h, i) ==
  /\ LET found == { b \in bookings : b.stripe_payment_intent_id = i }
         k == [VerifiedHook EXCEPT !.type = "checkout.session.expired", !.id = i]
     IN  IF found # {}
           THEN hooks' = [hooks EXCEPT ![h] =
                  [k EXCEPT !.pc = "delete_booking",
                            !.slot_id = (CHOOSE b \in found : TRUE).slot_id]]
           ELSE hooks' = [hooks EXCEPT ![h] = HookRespond(k, 200)]
  /\ UNCHANGED <<slots, bookings, nextId, stripe, calls, gen>>

\* Faulty variant of HandleOther: an event of another type confirms the
\* booking its object names.
HandleOtherConfirms(h, i) ==
  /\ bookings' = ConfirmRows(bookings, i)
  /\ hooks' = [hooks EXCEPT ![h] =
       HookRespond([VerifiedHook EXCEPT !.type = EventType(i), !.id = i], 200)]
  /\ UNCHANGED <<slots, nextId, stripe, calls, gen>>

\* default: the event type is only logged.
HandleOther(h, i) ==
  /\ hooks' = [hooks EXCEPT ![h] =
       HookRespond([VerifiedHook EXCEPT !.type = EventType(i), !.id = i], 200)]
  /\ UNCHANGED <<slots, bookings, nextId, stripe, calls, gen>>

\* A verified event for gateway object i reaches handler h: switch (event.type).
Deliver(h, i) ==
  /\ hooks[h].pc \in {"idle", "done"}
  /\ i \in DOMAIN stripe
  /\ EventType(i) # ""
  /\ CASE EventType(i) = "checkout.session.completed" -> HandleCompleted(h, i)
       [] EventType(i) = "checkout.session.expired" -> HandleExpired(h, i)
       [] OTHER -> HandleOther(h, i)

\* A verified checkout event of either type for session i, whatever the
\* status of the session at the gateway: the handler does not look at it.
DeliverAny(h, i, type) ==
  /\ hooks[h].pc \in {"idle", "done"}
  /\ i \in DOMAIN stripe
  /\ stripe[i].object = "checkout.session"
  /\ CASE type = "checkout.session.completed" -> HandleCompleted(h, i)
       [] OTHER -> HandleExpired(h, i)

\* "Delete the booking"
DeleteBooking(h) ==
  /\ hooks[h].pc = "delete_booking"
  /\ bookings' = DeleteRows(bookings, hooks[h].id)
  /\ hooks' = [hooks EXCEPT ![h].pc = "release_slot"]
  /\ UNCHANGED <<slots, nextId, stripe, calls, gen>>

\* "Make slot available again", then { received: true }.
ReleaseSlot(h) ==
  /\ hooks[h].pc = "release_slot"
  /\ slots' = SetAvailable(slots, hooks[h].slot_id, TRUE)
  /\ hooks' = [hooks EXCEPT ![h] = HookRespond(@, 200)]
  /\ UNCHANGED <<bookings, nextId, stripe, calls, gen>>

----------------------------------------------------------------------------
(* generate-slots *)

\* Faulty variant of Generate: slotsCreated counts the rows the upsert added.
GenerateCountsNewRows(startDate, endDate, courts, tz) ==
  /\ \E batch \in {GenerateBatch(courts, startDate, endDate, tz)} :
     \E result \in {Upsert(slots, batch)} :
         /\ slots' = result.table
         /\ gen' = [ tz |-> tz, startDate |-> startDate, endDate |-> endDate,
                     courts |-> courts,
                     repeat |-> /\ gen.status # Null
                                /\ gen.tz = tz
                                /\ gen.startDate = startDate
                                /\ gen.endDate = endDate
                                /\ gen.courts = courts,
                     status |-> IF result.error THEN 500 ELSE 200,
                     slotsCreated |-> IF result.error THEN Null
                                      ELSE Len(result.table) - Len(slots) ]
  /\ UNCHANGED <<bookings, nextId, stripe, calls, hooks>>

\* POST generate-slots on a server in zone tz, with the court_config rule
\* holding courts: the batch is computed, written with one upsert, and the
\* answer is { success, slotsCreated } or, if the upsert fails, status 500.
\* gen.repeat tells that the request served before was the same one.
Generate(startDate, endDate, courts, tz) ==
  /\ \E batch \in {GenerateBatch(courts, startDate, endDate, tz)} :
     \E result \in {Upsert(slots, batch)} :
         /\ slots' = result.table
         /\ gen' = [ tz |-> tz, startDate |-> startDate, endDate |-> endDate,
                     courts |-> courts,
                     repeat |-> /\ gen.status # Null
                                /\ gen.tz = tz
                                /\ gen.startDate = startDate
                                /\ gen.endDate = endDate
                                /\ gen.courts = courts,
                     status |-> IF result.error THEN 500 ELSE 200,
                     slotsCreated |-> IF result.error THEN Null ELSE Len(batch) ]
  /\ UNCHANGED <<bookings, nextId, stripe, calls, hooks>>

----------------------------------------------------------------------------

Next ==
  \/ \E p \in Procs, e \in Endpoints, s \in SlotIds \cup {NoSuchSlot} : GetSlot(p, e, s)
  \/ \E p \in Procs : CreateSession(p)
  \/ \E p \in Procs : CreateSessionFails(p)
  \/ \E p \in Procs : InsertBooking(p)
  \/ \E p \in Procs : InsertBookingFails(p)
  \/ \E p \in Procs : UpdateSlot(p)
  \/ \E i \in 1..NumCalls : CustomerPays(i)
  \/ \E i \in 1..NumCalls : SessionExpires(i)
  \/ \E h \in Hooks, i \in 1..NumCalls : Deliver(h, i)
  \/ \E h \in Hooks, g \in Signatures : RejectUnverified(h, g)
  \/ \E h \in Hooks : DeleteBooking(h)
  \/ \E h \in Hooks : ReleaseSlot(h)

Spec == Init /\ [][Next]_vars

\* The same system when the storage may also fail the statement whose result
\* the reserve handlers discard.
NextFaults ==
  \/ Next
  \/ \E p \in Procs : UpdateSlotFails(p)

SpecFaults == Init /\ [][NextFaults]_vars

\* The same system when verified checkout events arrive in any order and
\* for any session, not only as the gateway orders them.
NextAnyOrder ==
  \/ Next
  \/ \E h \in Hooks, i \in 1..NumCalls,
        t \in {"checkout.session.completed", "checkout.session.expired"} :
          DeliverAny(h, i, t)

SpecAnyOrder == Init /\ [][NextAnyOrder]_vars

\* Every handler that has started runs to its response, an open session that
\* is not paid expires, and the gateway delivers the event of every session.
\* Whether a customer pays is left open.
Fairness ==
  /\ \A p \in Procs :
       /\ WF_vars(CreateSession(p) \/ CreateSessionFails(p))
       /\ WF_vars(InsertBooking(p) \/ InsertBookingFails(p))
       /\ WF_vars(UpdateSlot(p))
  /\ \A i \in 1..NumCalls :
       /\ WF_vars(SessionExpires(i))
       /\ WF_vars(\E h \in Hooks : Deliver(h, i))
  /\ \A h \in Hooks :
       /\ WF_vars(DeleteBooking(h))
       /\ WF_vars(ReleaseSlot(h))

SpecLive == Spec /\ Fairness

\* The generator alone: requests for any range of dates, any stored court
\* configuration and any zone of the server.
NextGenerate ==
  \E startDate, endDate \in Dates, courts \in CourtConfigs, tz \in TimeZones :
    Generate(startDate, endDate, courts, tz)

SpecGenerate == Init /\ [][NextGenerate]_vars

\* The booking handlers interleaved with one generate request of the
\* deployed configuration over all dates, the first of which has its slots.
NextWithGenerate ==
  \/ Next
  \/ /\ gen.status = Null
     /\ Generate(FirstDate, FirstDate + NumDates - 1, DocumentedCourts, "UTC")

SpecWithGenerate == Init /\ [][NextWithGenerate]_vars

\* The id of the first slot of the second date: the first row a generate
\* request for that date appends to the initial table.
RepricedSlot == Len(InitialSlots) + 1

\* Reserve calls for the first slot of the second date, interleaved with
\* generate requests for that date served in any zone: the zone decides the
\* day class, so a later request rewrites base_price_cents of the slot.
NextReprice ==
  \/ \E p \in Procs, e \in Endpoints : GetSlot(p, e, RepricedSlot)
  \/ \E p \in Procs : CreateSession(p)
  \/ \E p \in Procs : InsertBooking(p)
  \/ \E p \in Procs : UpdateSlot(p)
  \/ \E tz \in TimeZones :
       Generate(FirstDate + 1, FirstDate + 1, DocumentedCourts, tz)

SpecReprice == Init /\ [][NextReprice]_vars

----------------------------------------------------------------------------
(* Properties *)

\* C1: reserve calls racing for one slot that was available (and was never
\* released in between) end with exactly one success, and every other call
\* is answered 'Slot not available'.
C1_ExactlyOneReserveSucceeds ==
  \A s \in SlotIds :
    LET on == { p \in Procs : calls[p].pc # "idle" /\ calls[p].slotId = s }
    IN  ( /\ Cardinality(on) >= 2
          /\ \A p \in on : calls[p].pc = "done" /\ calls[p].status # 500
          /\ \A i \in DOMAIN stripe :
               stripe[i].slot_id = s => stripe[i].status # "expired" )
        => /\ Cardinality({ p \in on : calls[p].status = 200 }) = 1
           /\ \A p \in on : calls[p].status # 200 =>
                /\ calls[p].status = 400
                /\ calls[p].error = "Slot not available"

C3_AtMostOneActiveBookingPerSlot ==
  \A s \in SlotIds :
    Cardinality({ b \in bookings :
      b.slot_id = s /\ b.status \in {"pending", "confirmed"} }) <= 1

\* C4: a reserve call that has requested its payment session and is still
\* running has already made its slot unavailable.
C4_SlotUnavailableBeforeSession ==
  \A p \in Procs :
    ( /\ calls[p].session # Null
      /\ calls[p].pc \in {"insert_booking", "update_slot"} )
    => slots[calls[p].slotId].is_available = FALSE

\* C5: when a reserve call finishes, either its pending booking exists and
\* the slot is unavailable, or it created no booking and did not change the
\* slot; also when one of its statements fails.
C5_ReserveIsAtomic ==
  [][ \A p \in Procs :
        (calls[p].pc # "done" /\ calls'[p].pc = "done")
        => \/ /\ \E b \in bookings' :
                    /\ b.id = calls'[p].booking
                    /\ b.slot_id = calls'[p].slotId
                    /\ b.status = "pending"
              /\ slots'[calls'[p].slotId].is_available = FALSE
           \/ /\ calls'[p].booking = Null
              /\ slots' = slots ]_vars

\* C6: a reserve call that ends in an error has written nothing: every step
\* of a call other than the insert and the final slot update leaves both
\* tables as they are, and a call that ends in an error has inserted no
\* booking, so no booking carries its payment session.
C6_FailedReserveWritesNothing ==
  [][ \A p \in Procs :
        calls'[p] # calls[p]
        => /\ (calls'[p].pc # "update_slot" /\ calls'[p].status # 200)
                => (bookings' = bookings /\ slots' = slots)
           /\ (calls'[p].pc = "done" /\ calls'[p].status # 200)
                => /\ calls[p].booking = Null
                   /\ \A b \in bookings' :
                        \/ calls[p].session = Null
                        \/ b.stripe_payment_intent_id # calls[p].session ]_vars

\* C6 witness: a call failed after its payment session was created, no
\* booking carries that session and the slot is still on offer.
C6_FailedAfterSession ==
  \E p \in Procs :
    /\ calls[p].pc = "done"
    /\ calls[p].status = 500
    /\ calls[p].session # Null
    /\ slots[calls[p].slotId].is_available = TRUE
    /\ \A b \in bookings : b.stripe_payment_intent_id # calls[p].session

\* C7: reserve on a slot id without a row, or on a slot that is not
\* available, answers 'Slot not available' at once, requests no payment
\* session and writes neither table.
C7_UnavailableSlotRejected ==
  [][ \A p \in Procs :
        ( /\ calls[p].pc = "idle"
          /\ calls'[p].pc # "idle"
          /\ \/ calls'[p].slotId \notin SlotIds
             \/ slots[calls'[p].slotId].is_available = FALSE )
        => /\ calls'[p].pc = "done"
           /\ calls'[p].status = 400
           /\ calls'[p].error = "Slot not available"
           /\ calls'[p].session = Null
           /\ stripe' = stripe
           /\ bookings' = bookings
           /\ slots' = slots ]_vars

\* C7 witness: a call on an existing slot that another call had reserved was
\* answered 'Slot not available'.
C7_RejectedOnTakenSlot ==
  \E p \in Procs :
    /\ calls[p].pc = "done"
    /\ calls[p].status = 400
    /\ calls[p].slotId \in SlotIds
    /\ slots[calls[p].slotId].is_available = FALSE

\* C8: once the completed event of a booking has been handled the booking is
\* confirmed, and the slot of a confirmed booking is unavailable in every
\* later state.
C8_ConfirmedSlotStaysUnavailable ==
  /\ \A h \in Hooks :
       ( /\ hooks[h].pc = "done"
         /\ hooks[h].type = "checkout.session.completed" )
       => \A b \in bookings :
            b.stripe_payment_intent_id = hooks[h].id => b.status # "pending"
  /\ \A b \in bookings :
       b.status = "confirmed" => slots[b.slot_id].is_available = FALSE

\* C9: handling the completed event of a booking that is already confirmed
\* changes no booking and no slot and is answered 200; the reference still
\* has exactly one confirmed booking.
C9_RedeliveryIsNoOp ==
  [][ \A h \in Hooks, i \in DOMAIN stripe :
        ( /\ Deliver(h, i)
          /\ EventType(i) = "checkout.session.completed"
          /\ \E b \in bookings :
               b.stripe_payment_intent_id = i /\ b.status = "confirmed" )
        => /\ bookings' = bookings
           /\ slots' = slots
           /\ hooks'[h].status = 200
           /\ Cardinality({ b \in bookings' :
                 /\ b.stripe_payment_intent_id = i
                 /\ b.status = "confirmed" }) = 1 ]_vars

\* C9 witness: two handlers have each handled the completed event of the
\* same session, whose booking is confirmed.
C9_CompletedHandledTwice ==
  \E g, h \in Hooks :
    /\ g # h
    /\ hooks[g].pc = "done" /\ hooks[h].pc = "done"
    /\ hooks[g].type = "checkout.session.completed"
    /\ hooks[h].type = "checkout.session.completed"
    /\ hooks[g].id = hooks[h].id
    /\ \E b \in bookings :
         b.stripe_payment_intent_id = hooks[h].id /\ b.status = "confirmed"

\* C10: when the expired event of a pending booking has been handled, the
\* booking is gone, its slot is available and no confirmed booking exists
\* for that slot.
C10_ExpiryReleasesSlot ==
  [][ \A h \in Hooks :
        ReleaseSlot(h)
        => /\ \A b \in bookings' : b.stripe_payment_intent_id # hooks[h].id
           /\ slots'[hooks[h].slot_id].is_available = TRUE
           /\ \A b \in bookings' :
                b.slot_id = hooks[h].slot_id => b.status # "confirmed" ]_vars

\* C11: once one handler has fully handled the expired event of a session,
\* every step of another handler for the same event changes no booking and
\* no slot and does not fail.
C11_ExpiredRedeliveryIsNoOp ==
  [][ \A h \in Hooks :
        ( /\ hooks'[h] # hooks[h]
          /\ hooks'[h].type = "checkout.session.expired"
          /\ \E g \in Hooks :
               /\ g # h
               /\ hooks[g].pc = "done"
               /\ hooks[g].type = "checkout.session.expired"
               /\ hooks[g].id = hooks'[h].id
               /\ hooks[g].slot_id # Null )
        => /\ bookings' = bookings
           /\ slots' = slots
           /\ hooks'[h].status \in {Null, 200} ]_vars

\* C12: a booking that is confirmed, cancelled or completed stays in the
\* table with the same status, whatever step is taken.
C12_TerminalBookingIsKept ==
  [][ \A b \in bookings :
        b.status \in {"confirmed", "cancelled", "completed"}
        => b \in bookings' ]_vars

\* C13: every pending booking eventually leaves the pending state.
C13_PendingEventuallyLeaves ==
  \A i \in 1..NumCalls :
    (\E b \in bookings :
       b.stripe_payment_intent_id = i /\ b.status = "pending")
    ~> ~(\E b \in bookings :
           b.stripe_payment_intent_id = i /\ b.status = "pending")

\* C14: a step of a webhook handler whose request carries no valid signature
\* changes no booking and no slot and ends the request with 400.
C14_UnverifiedChangesNothing ==
  [][ \A h \in Hooks :
        (hooks'[h] # hooks[h] /\ hooks'[h].signature # "valid")
        => /\ bookings' = bookings
           /\ slots' = slots
           /\ hooks'[h].pc = "done"
           /\ hooks'[h].status = 400 ]_vars

\* C14 witness: a request without a valid signature was answered 400 while
\* a paid session has a booking that is still pending, so the event it may
\* have carried was not applied.
C14_RejectedWhileBookingPending ==
  \E h \in Hooks :
    /\ hooks[h].pc = "done"
    /\ hooks[h].signature \in {"missing", "invalid"}
    /\ hooks[h].status = 400
    /\ \E b \in bookings :
         /\ b.status = "pending"
         /\ stripe[b.stripe_payment_intent_id].status = "complete"

\* C15: a checkout event whose session id is carried by no booking leaves
\* bookings and slots unchanged and is answered 200 at once.
C15_UnknownReferenceIsDiscarded ==
  [][ \A h \in Hooks, i \in DOMAIN stripe :
        ( /\ hooks[h].pc \in {"idle", "done"}
          /\ hooks'[h] # hooks[h]
          /\ hooks'[h].signature = "valid"
          /\ hooks'[h].id = i
          /\ hooks'[h].type \in {"checkout.session.completed",
                                  "checkout.session.expired"}
          /\ \A b \in bookings : b.stripe_payment_intent_id # i )
        => /\ bookings' = bookings
           /\ slots' = slots
           /\ hooks'[h].pc = "done"
           /\ hooks'[h].status = 200 ]_vars

\* C15 witness: handlers have answered the completed event and the expired
\* event of a session that no booking carries.
C15_UnknownReferenceHandled ==
  \E g, h \in Hooks :
    /\ hooks[g].pc = "done" /\ hooks[h].pc = "done"
    /\ hooks[g].type = "checkout.session.completed"
    /\ hooks[h].type = "checkout.session.expired"
    /\ hooks[g].id = hooks[h].id
    /\ hooks[h].slot_id = Null
    /\ hooks[g].status = 200 /\ hooks[h].status = 200
    /\ \A b \in bookings : b.stripe_payment_intent_id # hooks[h].id

\* C16: when the storage rejects the update of the completed branch because
\* the slot already has a confirmed booking, the handler does not answer 200.
C16_IntegrityViolationSurfaced ==
  [][ \A h \in Hooks, i \in DOMAIN stripe :
        ( /\ Deliver(h, i)
          /\ EventType(i) = "checkout.session.completed"
          /\ ~UniqueConfirmedSlot(ConfirmRows(bookings, i)) )
        => hooks'[h].status # 200 ]_vars

\* C17: a generate request changes no booking, removes no slot row, and
\* leaves is_available and the key (court, date, start time) of every
\* existing slot row as they were.
C17_GenerateKeepsAvailability ==
  [][ gen' # gen
      => /\ bookings' = bookings
         /\ \A id \in DOMAIN slots :
              /\ id \in DOMAIN slots'
              /\ slots'[id].is_available = slots[id].is_available
              /\ Key(slots'[id]) = Key(slots[id]) ]_vars

\* C17 witness: generate has run over a range that holds a slot which is not
\* available and has a confirmed booking, and has added the slots of the
\* other date.
C17_GeneratedOverBookedSlot ==
  /\ gen.status = 200
  /\ Len(slots) > Len(InitialSlots)
  /\ \E id \in SlotIds :
       /\ slots[id].slot_date \in gen.startDate..gen.endDate
       /\ slots[id].is_available = FALSE
       /\ \E b \in bookings : b.slot_id = id /\ b.status = "confirmed"

\* C18: in the batch a generate request computes, no two slots of one court
\* have overlapping intervals [start, end), slots of different dates included.
C18_GeneratedSlotsDoNotOverlap ==
  LET batch == GenerateBatch(gen.courts, gen.startDate, gen.endDate, gen.tz)
  IN  \A j, k \in DOMAIN batch :
        (j # k /\ batch[j].court_name = batch[k].court_name)
        => ~( /\ StartOf(batch[j]) < EndOf(batch[k])
              /\ StartOf(batch[k]) < EndOf(batch[j]) )

\* C19: a generate request that repeats the request before it, which had
\* succeeded, succeeds with the same slot count and leaves the table as the
\* first run left it.
C19_SecondRunChangesNothing ==
  [][ (gen'.repeat /\ gen.status = 200)
      => /\ slots' = slots
         /\ gen'.status = 200
         /\ gen'.slotsCreated = gen.slotsCreated ]_vars

\* C19 witness: a request that added rows to the table has been served a
\* second time.
C19_SameRequestServedTwice ==
  /\ gen.repeat
  /\ gen.status = 200
  /\ gen.slotsCreated > 0
  /\ Len(slots) > Len(InitialSlots)

\* C20: for each date of the range and each court with offset o, the batch
\* holds exactly one slot for each start minute 420 + o + 90*k below 1380 and
\* no other slot; every slot ends 90 minutes after its start; with offset 0
\* the first slot is 07:00-08:30, with offset 30 it is 07:30-09:00; and when
\* the request succeeds every slot of the batch is a row of the table.
C20_OneSlotPerTick ==
  LET batch == GenerateBatch(gen.courts, gen.startDate, gen.endDate, gen.tz)
      Starts(o) == { 420 + o + 90 * k : k \in 0..15 } \cap 0..1379
      Rows(c, d) == { k \in DOMAIN batch :
                       batch[k].court_name = c /\ batch[k].slot_date = d }
  IN  /\ \A n \in DOMAIN gen.courts : \A d \in gen.startDate..gen.endDate :
           LET c == gen.courts[n].name
               o == gen.courts[n].offset_minutes
           IN  /\ { TimeOfDay(batch[k].start_time) : k \in Rows(c, d) } = Starts(o)
               /\ Cardinality(Rows(c, d)) = Cardinality(Starts(o))
               /\ o = 0 => \E k \in Rows(c, d) :
                             /\ batch[k].start_time = TimeString(7, 0)
                             /\ batch[k].end_time = TimeString(8, 30)
               /\ o = 30 => \E k \in Rows(c, d) :
                              /\ batch[k].start_time = TimeString(7, 30)
                              /\ batch[k].end_time = TimeString(9, 0)
      /\ \A k \in DOMAIN batch :
           /\ \E n \in DOMAIN gen.courts : gen.courts[n].name = batch[k].court_name
           /\ batch[k].slot_date \in gen.startDate..gen.endDate
           /\ batch[k].start_time.minute \in 0..59
           /\ batch[k].end_time.minute \in 0..59
           /\ TimeOfDay(batch[k].end_time) = TimeOfDay(batch[k].start_time) + 90
      /\ gen.status = 200
           => \A k \in DOMAIN batch : \E id \in DOMAIN slots :
                /\ Key(slots[id]) = Key(batch[k])
                /\ slots[id].end_time = batch[k].end_time
                /\ slots[id].base_price_cents = batch[k].base_price_cents

\* C21: every slot of the batch for a court with offset 0 starts at 21:30 at
\* the latest and ends at 23:00 at the latest.
C21_LastSlotWithinWindow ==
  LET batch == GenerateBatch(gen.courts, gen.startDate, gen.endDate, gen.tz)
  IN  \A n \in DOMAIN gen.courts : \A k \in DOMAIN batch :
        (gen.courts[n].offset_minutes = 0 /\ batch[k].court_name = gen.courts[n].name)
        => /\ TimeOfDay(batch[k].start_time) <= 21 * 60 + 30
           /\ TimeOfDay(batch[k].end_time) <= 23 * 60

\* C22: for every configured court the dates of the slots in the batch are
\* exactly the dates from startDate to endDate, none if startDate is after
\* endDate, and a date is walked once: no start time twice on one date.
C22_ExactlyTheDatesOfTheRange ==
  LET batch == GenerateBatch(gen.courts, gen.startDate, gen.endDate, gen.tz)
      Rows(c) == { k \in DOMAIN batch : batch[k].court_name = c }
  IN  /\ \A n \in DOMAIN gen.courts :
           LET rows == Rows(gen.courts[n].name)
           IN  /\ { batch[k].slot_date : k \in rows } = gen.startDate..gen.endDate
               /\ \A j, k \in rows :
                    ( /\ batch[j].slot_date = batch[k].slot_date
                      /\ batch[j].start_time = batch[k].start_time ) => j = k
      /\ \A k \in DOMAIN batch :
           \E n \in DOMAIN gen.courts : batch[k].court_name = gen.courts[n].name

\* C23: the price of every slot a successful request wrote is the price of
\* the bucket that holds its start time, in the weekday or weekend rate table
\* chosen by the day of the week of the slot's date.
C23_PriceFromRateTable ==
  LET batch == GenerateBatch(gen.courts, gen.startDate, gen.endDate, gen.tz)
  IN  gen.status = 200 => \A k \in DOMAIN batch :
        LET day == (batch[k].slot_date + EpochDay) % 7
            rates == IF day \in {0, 6} THEN WeekendRates ELSE WeekdayRates
            start == TimeOfDay(batch[k].start_time)
        IN  \E b \in rates :
              /\ b.from <= start /\ start < b.to
              /\ batch[k].base_price_cents = b.price * 100

\* C24: a slot a successful request wrote whose date is in the date list of
\* the holiday rule has the rule's override price for its interval.
C24_HolidayRuleTakesPrecedence ==
  LET batch == GenerateBatch(gen.courts, gen.startDate, gen.endDate, gen.tz)
  IN  gen.status = 200 => \A k \in DOMAIN batch :
        ( /\ batch[k].slot_date \in HolidayRule.dates
          /\ HolidayRule.price_override.from <= TimeOfDay(batch[k].start_time)
          /\ TimeOfDay(batch[k].start_time) < HolidayRule.price_override.to )
        => batch[k].base_price_cents = HolidayRule.price_override.price * 100

\* C25: a generate request served without a court configuration is answered
\* with an error.
C25_MissingConfigIsAnError ==
  (gen.status # Null /\ gen.courts = << >>) => gen.status = 500

\* C26: a generate request that fails leaves every row of the slot table as
\* it was, so that the next run starts from the table of the runs that
\* succeeded.
C26_FailedRunWritesNothing ==
  [][ gen'.status = 500 => slots' = slots ]_vars

\* C26 witness: a request with slots to write has failed after an earlier
\* request had added rows to the table.
C26_FailedAfterCommittedRows ==
  /\ gen.status = 500
  /\ gen.courts # << >>
  /\ gen.startDate <= gen.endDate
  /\ Len(slots) > Len(InitialSlots)

\* C29: after a successful request slotsCreated is the number of (court,
\* date, start time) slots of the batch, and that many rows of the table
\* carry a key of the batch: the rows the run created or updated.
C29_SlotsCreatedCountsWrittenRows ==
  gen.status = 200
  => LET batch == GenerateBatch(gen.courts, gen.startDate, gen.endDate, gen.tz)
         keys == { Key(batch[k]) : k \in DOMAIN batch }
     IN  /\ gen.slotsCreated = Cardinality(keys)
         /\ gen.slotsCreated =
              Cardinality({ id \in DOMAIN slots : Key(slots[id]) \in keys })

\* C29 witness: a request over both dates has updated the rows of the first
\* date and created the rows of the second.
C29_UpdatedAndCreated ==
  /\ gen.status = 200
  /\ gen.startDate < gen.endDate
  /\ gen.slotsCreated = Len(slots)
  /\ Len(slots) = 2 * Len(InitialSlots)

C28_PaymentReferenceUnique ==
  \A a, b \in bookings :
    a.stripe_payment_intent_id = b.stripe_payment_intent_id => a = b

\* C28 witness: two bookings for one slot are in the table.
C28_TwoBookingsOneSlot ==
  \E a, b \in bookings : a # b /\ a.slot_id = b.slot_id

\* C30: a slot that is available is referenced by no booking that is pending
\* or confirmed.
C30_AvailableSlotHasNoActiveBooking ==
  \A b \in bookings :
    b.status \in {"pending", "confirmed"} => slots[b.slot_id].is_available = FALSE

\* C35: a verified notification whose event type is neither
\* checkout.session.completed nor checkout.session.expired changes no booking
\* and no slot, and is answered as received (status 200).
C35_OtherEventChangesNothing ==
  [][\A h \in Hooks :
       ( /\ hooks'[h] # hooks[h]
         /\ hooks'[h].signature = "valid"
         /\ hooks'[h].type \notin {"checkout.session.completed",
                                   "checkout.session.expired"} )
       => /\ bookings' = bookings
          /\ slots' = slots
          /\ hooks'[h].pc = "done"
          /\ hooks'[h].status = 200]_vars

\* A payment_intent.succeeded event was answered as received while the
\* booking that stores the id of its payment intent is pending.
C35_OtherEventHandled ==
  \E h \in Hooks :
    /\ hooks[h].pc = "done"
    /\ hooks[h].signature = "valid"
    /\ hooks[h].type = "payment_intent.succeeded"
    /\ hooks[h].status = 200
    /\ \E b \in bookings :
         b.stripe_payment_intent_id = hooks[h].id /\ b.status = "pending"

\* C34: the weekday/weekend class that prices a slot is the day of the week
\* of the slot_date written for it: every stored slot whose slot_date is a
\* Saturday or a Sunday costs 6500, every other slot 4000, whatever the zone
\* of the server that ran generate.
C34_PriceClassIsDayOfSlotDate ==
  \A id \in DOMAIN slots :
    LET day == (slots[id].slot_date + EpochDay) % 7
    IN  slots[id].base_price_cents =
          IF day = 0 \/ day = 6 THEN WeekendPrice * 100 ELSE WeekdayPrice * 100

\* C31: once checkout.session.completed has been handled for the session of
\* a reserve call that answered with success, the booking that call created
\* exists and is confirmed: no customer who paid is left with a pending
\* booking or with none.
C31_CompletedPaymentConfirmsBooking ==
  \A h \in Hooks :
    ( /\ hooks[h].pc = "done"
      /\ hooks[h].signature = "valid"
      /\ hooks[h].type = "checkout.session.completed"
      /\ \E p \in Procs : calls[p].session = hooks[h].id /\ calls[p].status = 200 )
    => \E b \in bookings :
         /\ b.stripe_payment_intent_id = hooks[h].id
         /\ b.status = "confirmed"

\* C32: the payment reference a reserve endpoint stores is the identifier
\* the webhook handler looks up: every verified notification handled for the
\* payment of a stored booking is one of the two events whose branch searches
\* bookings by that reference, so the booking can leave the pending state.
C32_NotificationFindsBooking ==
  \A b \in bookings : \A h \in Hooks :
    ( /\ hooks[h].pc # "idle"
      /\ hooks[h].signature = "valid"
      /\ hooks[h].id = b.stripe_payment_intent_id )
    => hooks[h].type \in {"checkout.session.completed",
                          "checkout.session.expired"}

\* C33: for every booking, amount_paid_cents equals the amount of the
\* gateway object created for it, and both equal the base_price_cents its
\* reserve call read from the slot, also when generate rewrites the price of
\* the slot while the call runs.
C33_AmountIsThePriceRead ==
  \A b \in bookings :
    /\ b.stripe_payment_intent_id \in DOMAIN stripe
    /\ stripe[b.stripe_payment_intent_id].amount = b.amount_paid_cents
    /\ \E p \in Procs :
         /\ calls[p].booking = b.id
         /\ calls[p].session = b.stripe_payment_intent_id
         /\ calls[p].base_price_cents = b.amount_paid_cents

\* C33 witness: a call has inserted its booking after generate gave the slot
\* another price than the one the call read.
C33_PriceRewrittenDuringCall ==
  \E p \in Procs : \E b \in bookings :
    /\ calls[p].booking = b.id
    /\ gen.status = 200
    /\ slots[b.slot_id].base_price_cents # calls[p].base_price_cents

====
